---------------------------- MODULE Spec2Model ----------------------------
(* Serial JSON monitor (main.py, main_key.py): the SerialWorker read loop  *)
(* on its QThread, the queued data_received -> App.update_view hand-off,   *)
(* the UI thread's send_command / stop, and the TableViewer / non-table    *)
(* render pipeline with its heatmap rule resolution.                       *)
EXTENDS Integers, Sequences, FiniteSets, TLC

(***************************************************************************)
(* Bounds of the model.                                                    *)
(***************************************************************************)
\* non-empty lines the device delivers in one run
MaxReads == 3
\* send_command calls issued by the operator in one run
MaxSends == 1
\* stop() calls in one run
MaxStops == 1
\* the count of "[ERROR] Error reading serial" log lines saturates here
MaxErrs == 1

(***************************************************************************)
(* Python values.  Every value is a record of one shape, so that values of *)
(* different Python types can be compared: t is the Python type, n the     *)
(* number of an int or bool (True is 1) or the thousandths of a float, s   *)
(* the text of a str, keys the keys of a dict in insertion order, kids the *)
(* elements of a list or the values of a dict.                             *)
(***************************************************************************)
PyNone == [t |-> "NoneType", n |-> 0, s |-> "", keys |-> <<>>, kids |-> <<>>]
PyInt(i) == [t |-> "int", n |-> i, s |-> "", keys |-> <<>>, kids |-> <<>>]
PyBool(b) == [t |-> "bool", n |-> IF b THEN 1 ELSE 0, s |-> "", keys |-> <<>>, kids |-> <<>>]
PyFloat(m) == [t |-> "float", n |-> m, s |-> "", keys |-> <<>>, kids |-> <<>>]
PyStr(x) == [t |-> "str", n |-> 0, s |-> x, keys |-> <<>>, kids |-> <<>>]
PyList(xs) == [t |-> "list", n |-> 0, s |-> "", keys |-> <<>>, kids |-> xs]
PyDict(ks, vs) == [t |-> "dict", n |-> 0, s |-> "", keys |-> ks, kids |-> vs]

\* isinstance(v, (int, float)) in the sense of Python's numeric tower: bool is an int
IsNumber(v) == v.t \in {"int", "bool", "float"}

\* the value of a number, in thousandths
NumValue(v) == IF v.t = "float" THEN v.n ELSE 1000 * v.n

\* index of key k in the dict d (0 if absent)
KeyIndex(d, k) ==
    IF \E i \in 1..Len(d.keys) : d.keys[i] = k
    THEN CHOOSE i \in 1..Len(d.keys) : d.keys[i] = k
    ELSE 0

(***************************************************************************)
(* Python's ==, as display_tables applies it to decoded records: numbers   *)
(* compare by value across int, bool and float (1 == True == 1.0), lists   *)
(* element-wise in order, dicts by key set and value whatever the          *)
(* insertion order.                                                        *)
(***************************************************************************)
RECURSIVE PyEq(_, _)
PyEq(a, b) ==
    IF IsNumber(a) /\ IsNumber(b) THEN NumValue(a) = NumValue(b)
    ELSE IF a.t # b.t THEN FALSE
    ELSE IF a.t = "str" THEN a.s = b.s
    ELSE IF a.t = "NoneType" THEN TRUE
    ELSE IF a.t = "list" THEN
        /\ Len(a.kids) = Len(b.kids)
        /\ \A i \in 1..Len(a.kids) : PyEq(a.kids[i], b.kids[i])
    ELSE
        /\ Len(a.keys) = Len(b.keys)
        /\ \A i \in 1..Len(a.keys) :
              /\ KeyIndex(b, a.keys[i]) # 0
              /\ PyEq(a.kids[i], b.kids[KeyIndex(b, a.keys[i])])

(***************************************************************************)
(* The serial input.  Lines is what readline() can return after decode():  *)
(* complete lines end in "\n"; a read that times out in the middle of a    *)
(* line returns the part received so far, and the rest on the next call.   *)
(***************************************************************************)
LineA == "{\"A\": [[1, 2]]}\n"
LineATrue == "{\"A\": [[true, 2]]}\n"
LineB == "{\"B\": [[1, 3]], \"x\": 5}\n"
LineArray == "[1, 2]\n"
LineNumber == "7\n"
LineString == "\"s\"\n"
LineBoolean == "true\n"
LineNull == "null\n"
LineTruncated == "{\"A\": [[1, 2]]"
LineRest == "}\n"
LineEmpty == "\n"

Lines ==
    { LineA, LineATrue, LineB, LineArray, LineNumber, LineString, LineBoolean,
      LineNull, LineTruncated, LineRest, LineEmpty }

\* the result of json.loads: ok is FALSE for json.JSONDecodeError
Decoded(v) == [ok |-> TRUE, val |-> v]
JSONDecodeError == [ok |-> FALSE, val |-> PyNone]

json_loads(text) ==
    CASE text = LineA -> Decoded(PyDict(<<"A">>, <<PyList(<<PyList(<<PyInt(1), PyInt(2)>>)>>)>>))
      [] text = LineATrue -> Decoded(PyDict(<<"A">>, <<PyList(<<PyList(<<PyBool(TRUE), PyInt(2)>>)>>)>>))
      [] text = LineB -> Decoded(PyDict(<<"B", "x">>, <<PyList(<<PyList(<<PyInt(1), PyInt(3)>>)>>), PyInt(5)>>))
      [] text = LineArray -> Decoded(PyList(<<PyInt(1), PyInt(2)>>))
      [] text = LineNumber -> Decoded(PyInt(7))
      [] text = LineString -> Decoded(PyStr("s"))
      [] text = LineBoolean -> Decoded(PyBool(TRUE))
      [] text = LineNull -> Decoded(PyNone)
      [] OTHER -> JSONDecodeError


Max(a, b) == IF a >= b THEN a ELSE b
Min(a, b) == IF a <= b THEN a ELSE b
Abs(x) == IF x < 0 THEN -x ELSE x

(***************************************************************************)
(* Text.  Where the code works on the characters of a string, the string   *)
(* is the sequence of its characters.                                      *)
(***************************************************************************)
RECURSIVE Pow10(_)
\* 10 ** k
Pow10(k) == IF k = 0 THEN 1 ELSE 10 * Pow10(k - 1)

DigitChar(d) == << "0", "1", "2", "3", "4", "5", "6", "7", "8", "9" >>[d + 1]

RECURSIVE Digits(_, _)
\* the decimal digits of n >= 0, zero-padded to width
Digits(n, width) ==
    IF n < 10 /\ width <= 1 THEN << DigitChar(n) >>
    ELSE Append(Digits(n \div 10, width - 1), DigitChar(n % 10))

RECURSIVE Join(_)
\* "".join(chars)
Join(chars) == IF chars = <<>> THEN "" ELSE Head(chars) \o Join(Tail(chars))

RECURSIVE rstrip(_, _)
\* s.rstrip(c)
rstrip(s, c) ==
    IF s # <<>> /\ s[Len(s)] = c THEN rstrip(SubSeq(s, 1, Len(s) - 1), c) ELSE s

RECURSIVE SplitFirst(_, _)
\* s.split(c)[0]
SplitFirst(s, c) ==
    IF s = <<>> \/ Head(s) = c THEN <<>> ELSE << Head(s) >> \o SplitFirst(Tail(s), c)

\* a / u for a >= 0, rounded to the nearest integer, a tie to the even one
RoundHalfEven(a, u) ==
    LET q == a \div u
        r == a % u
    IN  IF 2 * r < u THEN q
        ELSE IF 2 * r > u THEN q + 1
        ELSE IF q % 2 = 0 THEN q ELSE q + 1

\* f"{num:.{precision}f}" for num = m thousandths.  The floats of the model
\* are those whose decimal ties are exact in binary (x.5, x.25, x.125), so
\* the correctly rounded result is the half-even rounding of the decimal
FixedFormat(m, precision) ==
    LET R == IF precision >= 3 THEN Abs(m) * Pow10(precision - 3)
             ELSE RoundHalfEven(Abs(m), Pow10(3 - precision))
    IN  (IF m < 0 THEN << "-" >> ELSE <<>>)
        \o Digits(R \div Pow10(precision), 1)
        \o (IF precision > 0 THEN << "." >> \o Digits(R % Pow10(precision), precision) ELSE <<>>)

\* repr() of a float of m thousandths: the shortest decimal that reads back
FloatRepr(m) ==
    LET frac == rstrip(Digits(Abs(m) % 1000, 3), "0")
    IN  Join((IF m < 0 THEN << "-" >> ELSE <<>>)
             \o Digits(Abs(m) \div 1000, 1) \o << "." >>
             \o (IF frac = <<>> THEN << "0" >> ELSE frac))

(***************************************************************************)
(* str() and repr() of a decoded value, as the labels and cells show it.   *)
(***************************************************************************)
RECURSIVE PyRepr(_), ReprItems(_, _)
PyRepr(v) ==
    CASE v.t = "int" -> ToString(v.n)
      [] v.t = "float" -> FloatRepr(v.n)
      [] v.t = "bool" -> (IF v.n = 1 THEN "True" ELSE "False")
      [] v.t = "NoneType" -> "None"
      [] v.t = "str" -> "'" \o v.s \o "'"
      [] v.t = "list" -> "[" \o ReprItems(v, 1) \o "]"
      [] OTHER -> "{" \o ReprItems(v, 1) \o "}"

\* the items of a list or dict from position i on, separated by ", "
ReprItems(v, i) ==
    IF i > Len(v.kids) THEN ""
    ELSE (IF v.t = "dict" THEN "'" \o v.keys[i] \o "': " ELSE "")
         \o PyRepr(v.kids[i])
         \o (IF i < Len(v.kids) THEN ", " ELSE "")
         \o ReprItems(v, i + 1)

str(v) == IF v.t = "str" THEN v.s ELSE PyRepr(v)

(***************************************************************************)
(* float(v): ok is FALSE where Python raises TypeError or ValueError; num  *)
(* is the value in thousandths.  The strings of the model that read as a   *)
(* number are "7" and "2.50".                                              *)
(***************************************************************************)
float(v) ==
    CASE IsNumber(v) -> [ok |-> TRUE, num |-> NumValue(v)]
      [] v.t = "str" /\ v.s = "7" -> [ok |-> TRUE, num |-> 7000]
      [] v.t = "str" /\ v.s = "2.50" -> [ok |-> TRUE, num |-> 2500]
      [] OTHER -> [ok |-> FALSE, num |-> 0]

\* a formatting that strips trailing zeros whatever the precision
_format_for_displayStripAlways(val, precision) ==
    IF float(val).ok /\ precision >= 0
    THEN Join(rstrip(rstrip(FixedFormat(float(val).num, precision), "0"), "."))
    ELSE str(val)

\* TableViewer._format_for_display; a negative precision makes the format
\* specification invalid (ValueError), which except Exception catches
_format_for_display(val, precision) ==
    IF float(val).ok /\ precision >= 0
    THEN LET s == FixedFormat(float(val).num, precision)
         IN  Join(IF precision > 0 THEN rstrip(rstrip(s, "0"), ".") ELSE SplitFirst(s, "."))
    ELSE str(val)

(***************************************************************************)
(* Colours.  A background is <<r, g, b>>; <<>> is a cell whose            *)
(* setBackground was never called.  A gradient position t is the fraction  *)
(* p / q with q > 0.                                                       *)
(***************************************************************************)
NoBackground == <<>>

RECURSIVE GCD(_, _)
GCD(x, y) == IF y = 0 THEN x ELSE GCD(y, x % y)

\* int(a + (b - a) * max(0.0, min(1.0, t))) with t = p / q: int() truncates,
\* and the value is never negative, so truncation is the floor; the
\* fraction is reduced to lowest terms first
_lerp(a, b, p, q) ==
    LET pc_ == Max(0, Min(q, p))
        g == GCD(pc_, q)
    IN  a + ((b - a) * (pc_ \div g)) \div (q \div g)

_green_color(p, q) == << _lerp(234, 184, p, q), _lerp(251, 240, p, q), _lerp(234, 184, p, q) >>

_red_color(p, q) == << _lerp(255, 255, p, q), _lerp(234, 140, p, q), _lerp(234, 140, p, q) >>

red_cap_factor == 5

\* max_dev = None
NoneDev == -1

(***************************************************************************)
(* TableViewer.add_table.  max_dev is in thousandths (50 is 0.05).  With   *)
(* S the sum and N the count of the numeric cells, avg = S / N, and for a  *)
(* cell num, D = |num * N - S|:  diff = D / |S|.  A fraction is the pair   *)
(* <<numerator, denominator>> with a positive denominator.  The arithmetic *)
(* is exact; the code's binary floating point differs from it only where   *)
(* diff equals max_dev exactly and avg is not a binary fraction, where the *)
(* computed diff can exceed max_dev by one unit in the last place.         *)
(***************************************************************************)
RECURSIVE SumNumsFailureAsZero(_, _)
\* a mean that counts a cell that fails to parse as 0.0
SumNumsFailureAsZero(table_data, i) ==
    IF i > Len(table_data.kids) THEN <<0, 0>>
    ELSE LET row == table_data.kids[i].kids
             RECURSIVE RowSum(_)
             RowSum(j) ==
                 IF j > Len(row) THEN <<0, 0>>
                 ELSE LET rest == RowSum(j + 1)
                          f == float(row[j])
                      IN  <<rest[1] + f.num, rest[2] + 1>>
             rest == SumNumsFailureAsZero(table_data, i + 1)
         IN  <<RowSum(1)[1] + rest[1], RowSum(1)[2] + rest[2]>>

RECURSIVE SumNums(_, _)
\* the numeric cells of the rows from row i on: <<sum, count>>
SumNums(table_data, i) ==
    IF i > Len(table_data.kids) THEN <<0, 0>>
    ELSE LET row == table_data.kids[i].kids
             RECURSIVE RowSum(_)
             RowSum(j) ==
                 IF j > Len(row) THEN <<0, 0>>
                 ELSE LET rest == RowSum(j + 1)
                          f == float(row[j])
                      IN  IF f.ok THEN <<rest[1] + f.num, rest[2] + 1>> ELSE rest
             rest == SumNums(table_data, i + 1)
         IN  <<RowSum(1)[1] + rest[1], RowSum(1)[2] + rest[2]>>

\* no diff was computed for the cell
NoDiff == <<>>

\* diff = abs(num - avg) / abs(avg), where add_table computes it
CellDiff(raw_val, max_dev, S, N) ==
    IF max_dev # NoneDev /\ S # 0 /\ float(raw_val).ok
    THEN << Abs(float(raw_val).num * N - S), Abs(S) >>
    ELSE NoDiff

\* the background add_table gives the cell raw_val
CellBackground(raw_val, max_dev, S, N) ==
    IF max_dev # NoneDev /\ S # 0 THEN
        IF ~float(raw_val).ok THEN NoBackground
        ELSE LET D == Abs(float(raw_val).num * N - S)
                 aS == Abs(S)
             IN  IF D * 1000 <= max_dev * aS THEN
                     \* t = diff / max_dev raises ZeroDivisionError for max_dev = 0
                     IF max_dev = 0 THEN NoBackground
                     ELSE _green_color(D * 1000, max_dev * aS)
                 ELSE
                     \* denom = max(max_dev * red_cap_factor, 1e-12)
                     IF max_dev = 0 THEN _red_color(1, 1)
                     ELSE _red_color(D * 1000 - max_dev * aS, max_dev * red_cap_factor * aS)
    ELSE NoBackground

add_table(table_data, max_dev, precision) ==
    LET sn == SumNums(table_data, 1)
        rows == Len(table_data.kids)
        cols == Len(table_data.kids[1].kids)
    IN  [w |-> "table", text |-> "", bold |-> FALSE, indent |-> 0, max_dev |-> max_dev,
         avg |-> sn,
         cells |-> [i \in 1..rows |-> [j \in 1..cols |->
                      [text |-> _format_for_display(table_data.kids[i].kids[j], precision),
                       diff |-> CellDiff(table_data.kids[i].kids[j], max_dev, sn[1], sn[2]),
                       bg |-> CellBackground(table_data.kids[i].kids[j], max_dev, sn[1], sn[2])]]]]

(***************************************************************************)
(* main_key.py, the variant with fixed bands: TableViewer.add_table there. *)
(* diff = abs(num - avg) / avg * 100 if avg else 0: a percentage, divided  *)
(* by avg itself.                                                          *)
(***************************************************************************)
CellDiff_key(val, S, N) ==
    IF ~float(val).ok THEN NoDiff
    ELSE IF S = 0 THEN << 0, 1 >>
    ELSE << (IF S < 0 THEN -100 ELSE 100) * Abs(float(val).num * N - S), Abs(S) >>

CellBackground_key(val, S, N) ==
    IF ~float(val).ok THEN NoBackground
    ELSE LET P == CellDiff_key(val, S, N)[1]
             Q == CellDiff_key(val, S, N)[2]
         IN  IF P <= 5 * Q THEN << 204, 255, 204 >>
             ELSE IF P <= 10 * Q THEN
                 \* t = (diff - 5) / 5; c = int(204 + (255 - 204) * t)
                 LET c == 204 + (51 * (P - 5 * Q)) \div (5 * Q)
                 IN  << c, 255, c >>
             ELSE IF P <= 50 * Q THEN
                 \* t = (diff - 10) / 40; g = b = int(255 * (1 - t) + 204 * t)
                 LET g == 255 + ((-51) * (P - 10 * Q)) \div (40 * Q)
                 IN  << 255, g, g >>
             ELSE << 255, 204, 204 >>

add_table_key(table_data) ==
    LET sn == SumNums(table_data, 1)
        rows == Len(table_data.kids)
        cols == Len(table_data.kids[1].kids)
    IN  [w |-> "table", text |-> "", bold |-> FALSE, indent |-> 0, max_dev |-> NoneDev,
         avg |-> sn,
         cells |-> [i \in 1..rows |-> [j \in 1..cols |->
                      [text |-> str(table_data.kids[i].kids[j]),
                       diff |-> CellDiff_key(table_data.kids[i].kids[j], sn[1], sn[2]),
                       bg |-> CellBackground_key(table_data.kids[i].kids[j], sn[1], sn[2])]]]]

\* add_label / add_wrapping_label: a QLabel
Label(text, bold, indent) ==
    [w |-> "label", text |-> text, bold |-> bold, indent |-> indent, max_dev |-> NoneDev,
     avg |-> <<0, 0>>, cells |-> <<>>]

is_2d_array(arr) ==
    /\ arr.t = "list"
    /\ Len(arr.kids) > 0
    /\ \A r \in 1..Len(arr.kids) : arr.kids[r].t = "list"
    /\ \A r \in 1..Len(arr.kids) : Len(arr.kids[r].kids) = Len(arr.kids[1].kids)


(***************************************************************************)
(* Heatmap rules.  A dict name -> max_deviation is the record of its keys  *)
(* in insertion order and their values; None is none = TRUE.               *)
(***************************************************************************)
NoRules == [none |-> TRUE, names |-> <<>>, devs |-> <<>>]
EmptyRules == [none |-> FALSE, names |-> <<>>, devs |-> <<>>]

\* d[k] = v
DictPut(d, k, v) ==
    IF \E i \in 1..Len(d.names) : d.names[i] = k
    THEN [d EXCEPT !.devs = [i \in 1..Len(d.devs) |-> IF d.names[i] = k THEN v ELSE d.devs[i]]]
    ELSE [d EXCEPT !.names = Append(d.names, k), !.devs = Append(d.devs, v)]

\* d[k], for k in d
DictGet(d, k) == d.devs[CHOOSE i \in 1..Len(d.names) : d.names[i] = k]

DictHas(d, k) == \E i \in 1..Len(d.names) : d.names[i] = k

RECURSIVE RulesFromHeatmaps(_, _, _), RulesFromTables(_, _, _)
\* {str(h["name"]): float(h.get("max_deviation", legacy_max_dev)) for h in heatmaps if "name" in h}
RulesFromHeatmaps(heatmaps, n, legacy_max_dev) ==
    IF n = 0 THEN EmptyRules
    ELSE LET d == RulesFromHeatmaps(heatmaps, n - 1, legacy_max_dev)
             h == heatmaps[n]
         IN  IF h.has_name
             THEN DictPut(d, h.name, IF h.has_max_deviation THEN h.max_deviation ELSE legacy_max_dev)
             ELSE d

\* {str(name): float(legacy_max_dev) for name in legacy_tables}
RulesFromTables(legacy_tables, n, legacy_max_dev) ==
    IF n = 0 THEN EmptyRules
    ELSE DictPut(RulesFromTables(legacy_tables, n - 1, legacy_max_dev), legacy_tables[n], legacy_max_dev)

\* App.__init__: the rules handed to TableViewer (an empty list is falsy, like None)
BuildRules(cfg) ==
    IF Len(cfg.heatmaps) > 0 THEN RulesFromHeatmaps(cfg.heatmaps, Len(cfg.heatmaps), cfg.legacy_max_dev)
    ELSE IF Len(cfg.legacy_tables) > 0 THEN RulesFromTables(cfg.legacy_tables, Len(cfg.legacy_tables), cfg.legacy_max_dev)
    ELSE NoRules

\* TableViewer.__init__: dict(heatmap_rules) if heatmap_rules else None
TableViewerRules(rules) == IF rules.none \/ Len(rules.names) = 0 THEN NoRules ELSE rules

\* a resolution that falls back to the default for a matrix no rule names
ResolveMaxDevDefaultIfUnnamed(key, rules, default_max_dev) ==
    IF rules.none \/ ~DictHas(rules, key) THEN default_max_dev ELSE DictGet(rules, key)

\* render_data: the max_dev add_table is called with for the matrix under key
ResolveMaxDev(key, rules, default_max_dev) ==
    IF rules.none THEN default_max_dev
    ELSE IF DictHas(rules, key) THEN DictGet(rules, key)
    ELSE NoneDev

(***************************************************************************)
(* TableViewer.render_data and App.render_non_table: the widgets each adds *)
(* to its layout, in order.  self is the TableViewer's configuration.      *)
(***************************************************************************)
RECURSIVE render_data(_, _), RenderItems(_, _, _)
render_data(data, self) ==
    IF data.t \in {"dict", "list"} THEN RenderItems(data, 1, self) ELSE <<>>

\* the iterations of render_data's for loop from position i on
RenderItems(data, i, self) ==
    IF i > Len(data.kids) THEN <<>>
    ELSE LET value == data.kids[i]
             this ==
                 IF data.t = "dict" THEN
                     IF value.t = "list" /\ is_2d_array(value) THEN
                         << Label(data.keys[i] \o ":", TRUE, 0),
                            add_table(value,
                                      ResolveMaxDev(data.keys[i], self.heatmap_rules, self.default_max_dev),
                                      self.precision) >>
                     ELSE IF value.t \in {"dict", "list"} THEN render_data(value, self)
                     ELSE <<>>
                 ELSE render_data(value, self)
         IN  this \o RenderItems(data, i + 1, self)

RECURSIVE recurse(_), RecurseItems(_, _)
\* render_non_table's inner recurse(d)
recurse(d) ==
    IF d.t \in {"dict", "list"} THEN RecurseItems(d, 1)
    ELSE << Label(str(d), FALSE, 0) >>

RecurseItems(d, i) ==
    IF i > Len(d.kids) THEN <<>>
    ELSE LET v == d.kids[i]
             this ==
                 IF d.t = "dict" THEN
                     IF v.t = "list" /\ is_2d_array(v) THEN <<>>
                     ELSE << Label(d.keys[i] \o ":", TRUE, 0), Label(str(v), FALSE, 10) >>
                 ELSE recurse(v)
         IN  this \o RecurseItems(d, i + 1)


(***************************************************************************)
(* The configurations App is constructed with.  Thresholds are in          *)
(* thousandths.  An entry of heatmaps may lack its "name" or its           *)
(* "max_deviation" key.                                                    *)
(***************************************************************************)
Heatmap(name, md) == [has_name |-> TRUE, name |-> name, has_max_deviation |-> TRUE, max_deviation |-> md]
HeatmapNoDev(name) == [has_name |-> TRUE, name |-> name, has_max_deviation |-> FALSE, max_deviation |-> 0]
HeatmapNoName(md) == [has_name |-> FALSE, name |-> "", has_max_deviation |-> TRUE, max_deviation |-> md]

CfgDefault == [precision |-> 3, heatmaps |-> <<>>, legacy_tables |-> <<>>, legacy_max_dev |-> 200]
CfgHeatmapA == [precision |-> 3, heatmaps |-> <<Heatmap("A", 100), HeatmapNoName(300)>>, legacy_tables |-> <<"B">>, legacy_max_dev |-> 50]
CfgLegacyB == [precision |-> 3, heatmaps |-> <<>>, legacy_tables |-> <<"B">>, legacy_max_dev |-> 50]
CfgNameless == [precision |-> 3, heatmaps |-> <<HeatmapNoName(300)>>, legacy_tables |-> <<>>, legacy_max_dev |-> 50]

Configs == { CfgDefault, CfgHeatmapA, CfgLegacyB, CfgNameless }

Commands == { "go", "stop" }

VARIABLES
    cfg,              \* the arguments App was constructed with
    device,           \* the lines the attached device can transmit
    program,          \* the variant that runs: "main.py" or "main_key.py"
    args,             \* the arguments of the calls made on the TableViewer
                      \* directly, and the records fed to update_view
    \* SerialWorker
    _running,         \* self._running
    serial_port,      \* self.serial_port: "None" or "Serial"
    is_open,          \* self.serial_port.is_open (FALSE while there is no Serial)
    \* SerialWorker.start on the worker thread
    pc,               \* "init", "while", "readline", "decode", "emit", "done"
    line,
    buffer,
    json_data,
    \* the device
    rx,               \* the non-empty lines readline has returned, each with the
                      \* number of errors logged before it
    written,          \* what write() has put on the handle
    \* Qt: the data_received events posted to the UI thread, not yet handled
    queue,
    \* TableViewer
    tv,               \* precision, heatmap_rules, default_max_dev
    content_layout,
    last_rendered,
    \* App
    non_table_layout,
    ui,               \* the UI thread: "idle", or "stop" inside SerialWorker.stop
    \* what an observer of the run has seen
    emitted,          \* emit() calls that returned: [idx, val], idx the line's place in rx
    delivered,        \* the arguments of the update_view calls
    n_err,            \* "[ERROR] Error reading serial" lines logged (saturating)
    sends,            \* send_command calls: [cmd, open, stopped]: the handle's state at
                      \* the call, and whether a stop() had returned before it
    raised,           \* an exception left send_command
    stop_calls,
    stop_at,          \* where start() stood when stop was last called
    stop_returns,
    closes,           \* close() calls on the handle
    tv_ops,           \* widgets removed from or added to content_layout
    nt_ops            \* widgets removed from or added to non_table_layout

worker_vars == << _running, serial_port, is_open >>
reader_vars == << pc, line, buffer, json_data, rx, emitted, n_err >>
view_vars == << tv, content_layout, last_rendered, non_table_layout, delivered, tv_ops, nt_ops >>
send_vars == << written, sends, raised >>
stop_vars == << ui, stop_calls, stop_at, stop_returns, closes >>
env_vars == << cfg, device, program, args >>
vars == << env_vars, worker_vars, reader_vars, view_vars, send_vars, stop_vars, queue >>

(***************************************************************************)
(* The state after App.__init__: the worker is constructed and moved to    *)
(* its thread, the thread is started, and both layouts are empty.          *)
(***************************************************************************)
AppInit(c, d) ==
    /\ cfg = c
    /\ device = d
    /\ _running = TRUE
    /\ serial_port = "None"
    /\ is_open = FALSE
    /\ pc = "init"
    /\ line = ""
    /\ buffer = ""
    /\ json_data = PyNone
    /\ rx = <<>>
    /\ written = <<>>
    /\ queue = <<>>
    /\ tv = [precision |-> cfg.precision,
             heatmap_rules |-> TableViewerRules(BuildRules(cfg)),
             default_max_dev |-> cfg.legacy_max_dev]
    /\ content_layout = <<>>
    /\ last_rendered = PyNone
    /\ non_table_layout = <<>>
    /\ ui = "idle"
    /\ emitted = <<>>
    /\ delivered = <<>>
    /\ n_err = 0
    /\ sends = <<>>
    /\ raised = FALSE
    /\ stop_calls = 0
    /\ stop_at = ""
    /\ stop_returns = 0
    /\ closes = 0
    /\ tv_ops = 0
    /\ nt_ops = 0

\* no direct call is made and nothing is fed: the program runs on its input
NoArgs == [table_data |-> PyNone, max_dev |-> NoneDev, feed |-> <<>>]

\* main.py, constructed with the arguments c and attached to the device d
Construct(c, d) ==
    /\ program = "main.py"
    /\ args = NoArgs
    /\ AppInit(c, d)

\* print(f"[ERROR] Error reading serial: {e}")
LogError == n_err' = Min(n_err + 1, MaxErrs)

(***************************************************************************)
(* SerialWorker.start, step by step.                                       *)
(***************************************************************************)
\* serial.Serial(...) opens the port and the worker takes it as its handle
StartOpenOk ==
    /\ pc = "init"
    /\ serial_port' = "Serial"
    /\ is_open' = TRUE
    /\ pc' = "while"
    /\ buffer' = ""
    /\ UNCHANGED << env_vars, _running, line, json_data, rx, emitted, n_err, view_vars, send_vars, stop_vars, queue >>

\* serial.SerialException: logged, start returns
StartOpenFails ==
    /\ pc = "init"
    /\ pc' = "done"
    /\ UNCHANGED << env_vars, worker_vars, line, buffer, json_data, rx, emitted, n_err, view_vars, send_vars, stop_vars, queue >>

\* while self._running:
LoopTest ==
    /\ pc = "while"
    /\ pc' = IF _running THEN "readline" ELSE "done"
    /\ UNCHANGED << env_vars, worker_vars, line, buffer, json_data, rx, emitted, n_err, view_vars, send_vars, stop_vars, queue >>

\* readline() returns a non-empty line: buffer = line
ReadlineLine(l) ==
    /\ pc = "readline"
    /\ is_open
    /\ l \in device
    /\ Len(rx) < MaxReads
    /\ line' = l
    /\ buffer' = l
    /\ rx' = Append(rx, [text |-> l, errs |-> n_err])
    /\ pc' = "decode"
    /\ UNCHANGED << env_vars, worker_vars, json_data, emitted, n_err, view_vars, send_vars, stop_vars, queue >>

\* readline() returns b"" (the 1 s timeout passed, or the handle was closed
\* under the read): if not line: continue
ReadlineTimeout ==
    /\ pc = "readline"
    /\ line' = ""
    /\ pc' = "while"
    /\ UNCHANGED << env_vars, worker_vars, buffer, json_data, rx, emitted, n_err, view_vars, send_vars, stop_vars, queue >>

\* readline() raises (a device error, or the handle was closed by stop):
\* except Exception logs it and the loop goes on
ReadlineRaises ==
    /\ pc = "readline"
    /\ LogError
    /\ pc' = "while"
    /\ UNCHANGED << env_vars, worker_vars, line, buffer, json_data, rx, emitted, view_vars, send_vars, stop_vars, queue >>

\* json_data = json.loads(buffer); except json.JSONDecodeError: continue
Decode ==
    /\ pc = "decode"
    /\ LET r == json_loads(buffer)
       IN  IF r.ok
           THEN json_data' = r.val /\ pc' = "emit"
           ELSE json_data' = json_data /\ pc' = "while"
    /\ UNCHANGED << env_vars, worker_vars, line, buffer, rx, emitted, n_err, view_vars, send_vars, stop_vars, queue >>

\* a blocking hand-off: the emit returns only once the consumer is idle
EmitBlocking ==
    /\ pc = "emit"
    /\ queue = <<>>
    /\ IF json_data.t = "dict"
       THEN /\ queue' = Append(queue, json_data)
            /\ emitted' = Append(emitted, [idx |-> Len(rx), val |-> json_data])
            /\ buffer' = ""
            /\ n_err' = n_err
       ELSE /\ LogError
            /\ UNCHANGED << queue, emitted, buffer >>
    /\ pc' = "while"
    /\ UNCHANGED << env_vars, worker_vars, line, json_data, rx, view_vars, send_vars, stop_vars >>

\* self.data_received.emit(json_data); buffer = "".  The signal is declared
\* pyqtSignal(dict): emit raises TypeError for an argument that is no dict,
\* which except Exception logs.  The worker lives on its own thread and the
\* receiver on the UI thread, so the connection is queued: emit posts the
\* event and returns
Emit ==
    /\ pc = "emit"
    /\ IF json_data.t = "dict"
       THEN /\ queue' = Append(queue, json_data)
            /\ emitted' = Append(emitted, [idx |-> Len(rx), val |-> json_data])
            /\ buffer' = ""
            /\ n_err' = n_err
       ELSE /\ LogError
            /\ UNCHANGED << queue, emitted, buffer >>
    /\ pc' = "while"
    /\ UNCHANGED << env_vars, worker_vars, line, json_data, rx, view_vars, send_vars, stop_vars >>


(***************************************************************************)
(* The UI thread.  Its slots run one at a time, so send_command and        *)
(* update_view never run inside stop; the worker thread runs alongside.    *)
(***************************************************************************)
\* App.update_view(data), called by the event loop for the oldest posted
\* event: TableViewer.display_tables(data), then App.render_non_table(data)
UpdateView ==
    /\ ui = "idle"
    /\ queue # <<>>
    /\ LET data == Head(queue)
           tables == render_data(data, tv)
           labels == recurse(data)
       IN  /\ IF PyEq(data, last_rendered)
              THEN UNCHANGED << content_layout, last_rendered, tv_ops >>
              ELSE /\ content_layout' = tables
                   /\ last_rendered' = data
                   /\ tv_ops' = tv_ops + Len(content_layout) + Len(tables)
           /\ non_table_layout' = labels
           /\ nt_ops' = nt_ops + Len(non_table_layout) + Len(labels)
           /\ delivered' = Append(delivered, data)
    /\ queue' = Tail(queue)
    /\ UNCHANGED << env_vars, worker_vars, reader_vars, tv, send_vars, stop_vars >>

\* send_command without the open test: write() on a closed or missing
\* handle raises
SendCommandUnguarded(cmd) ==
    /\ ui = "idle"
    /\ Len(sends) < MaxSends
    /\ sends' = Append(sends, [cmd |-> cmd, open |-> is_open, stopped |-> stop_returns > 0])
    /\ IF is_open
       THEN written' = Append(written, cmd \o "\n") /\ raised' = raised
       ELSE written' = written /\ raised' = TRUE
    /\ UNCHANGED << env_vars, worker_vars, reader_vars, view_vars, stop_vars, queue >>

\* SerialWorker.send_command(cmd), called from App.send_command and
\* App.send_quick_command
SendCommand(cmd) ==
    /\ ui = "idle"
    /\ Len(sends) < MaxSends
    /\ sends' = Append(sends, [cmd |-> cmd, open |-> is_open, stopped |-> stop_returns > 0])
    /\ IF serial_port # "None" /\ is_open
       THEN written' = Append(written, cmd \o "\n")
       ELSE written' = written
    /\ UNCHANGED << env_vars, worker_vars, reader_vars, view_vars, stop_vars, queue, raised >>

\* stop that closes the handle and forgets the flag
StopFlagKeepsRunning ==
    /\ ui = "idle"
    /\ stop_calls < MaxStops
    /\ stop_calls' = stop_calls + 1
    /\ stop_at' = pc
    /\ ui' = "stop"
    /\ UNCHANGED << env_vars, worker_vars, reader_vars, view_vars, send_vars, stop_returns, closes, queue >>

\* SerialWorker.stop, called by App.closeEvent: self._running = False
StopFlag ==
    /\ ui = "idle"
    /\ stop_calls < MaxStops
    /\ stop_calls' = stop_calls + 1
    /\ stop_at' = pc
    /\ _running' = FALSE
    /\ ui' = "stop"
    /\ UNCHANGED << env_vars, serial_port, is_open, reader_vars, view_vars, send_vars, stop_returns, closes, queue >>

\* SerialWorker.stop: if self.serial_port and self.serial_port.is_open: close()
StopClose ==
    /\ ui = "stop"
    /\ IF serial_port # "None" /\ is_open
       THEN is_open' = FALSE /\ closes' = closes + 1
       ELSE UNCHANGED << is_open, closes >>
    /\ ui' = "idle"
    /\ stop_returns' = stop_returns + 1
    /\ UNCHANGED << env_vars, _running, serial_port, reader_vars, view_vars, send_vars, stop_calls, stop_at, queue >>

\* the worker thread's next step
Reader ==
    \/ StartOpenOk
    \/ StartOpenFails
    \/ LoopTest
    \/ \E l \in Lines : ReadlineLine(l)
    \/ ReadlineTimeout
    \/ ReadlineRaises
    \/ Decode
    \/ Emit

\* the UI thread's next step
UI ==
    \/ UpdateView
    \/ \E cmd \in Commands : SendCommand(cmd)
    \/ StopFlag
    \/ StopClose

(***************************************************************************)
(* The program with any configuration, attached to a device that sends any *)
(* of Lines.                                                               *)
(***************************************************************************)
Init == \E c \in Configs : Construct(c, Lines)

Next == Reader \/ UI

Spec == Init /\ [][Next]_vars

(***************************************************************************)
(* The framer and the hand-off while the worker is running: the default    *)
(* configuration, a device that sends one line of each JSON kind and the   *)
(* malformed lines, and an operator who neither sends nor closes the       *)
(* window.                                                                 *)
(***************************************************************************)
FramerLines ==
    { LineA, LineArray, LineNumber, LineString, LineBoolean, LineNull,
      LineTruncated, LineRest, LineEmpty }

InitFramer == Construct(CfgDefault, FramerLines)

NextFramer ==
    \/ StartOpenOk
    \/ StartOpenFails
    \/ LoopTest
    \/ \E l \in FramerLines : ReadlineLine(l)
    \/ ReadlineTimeout
    \/ ReadlineRaises
    \/ Decode
    \/ Emit
    \/ UpdateView

SpecFramer == InitFramer /\ [][NextFramer]_vars

(***************************************************************************)
(* The render pipeline: any configuration, a device that sends objects.    *)
(***************************************************************************)
ObjectLines == { LineA, LineATrue, LineB }

InitRender == \E c \in Configs : Construct(c, ObjectLines)

NextRender ==
    \/ StartOpenOk
    \/ StartOpenFails
    \/ LoopTest
    \/ \E l \in ObjectLines : ReadlineLine(l)
    \/ ReadlineTimeout
    \/ ReadlineRaises
    \/ Decode
    \/ Emit
    \/ UpdateView

SpecRender == InitRender /\ [][NextRender]_vars

(***************************************************************************)
(* The worker thread against the operator: start() interleaved with        *)
(* send_command and stop, with a device that sends one object line.        *)
(***************************************************************************)
WorkerLines == { LineA }

InitWorker == Construct(CfgDefault, WorkerLines)

NextWorker ==
    \/ StartOpenOk
    \/ StartOpenFails
    \/ LoopTest
    \/ \E l \in WorkerLines : ReadlineLine(l)
    \/ ReadlineTimeout
    \/ ReadlineRaises
    \/ Decode
    \/ Emit
    \/ UpdateView
    \/ \E cmd \in Commands : SendCommand(cmd)
    \/ StopFlag
    \/ StopClose

SpecWorker == InitWorker /\ [][NextWorker]_vars

\* the worker thread is scheduled as long as start has not returned, and a
\* readline comes back within its timeout
FairSpecWorker == SpecWorker /\ WF_vars(Reader)


(***************************************************************************)
(* add_table on its own: the TableViewer of either variant is handed one   *)
(* matrix, with a threshold (main.py) and under a display precision.       *)
(***************************************************************************)
\* integer cells range over -MaxCell .. MaxCell
MaxCell == 3
\* the display precision ranges over 0 .. MaxPrecision
MaxPrecision == 3

\* max_deviation as the configuration can give it, in thousandths
Thresholds == { 0, 50, 100, 200, 500 }

Precisions == 0..MaxPrecision

\* what a cell of a matrix can hold
CellValues ==
    { PyInt(i) : i \in (-MaxCell)..MaxCell }
    \cup { PyFloat(500), PyBool(TRUE), PyStr("7"), PyStr("a"), PyNone }

Row2(a, b) == PyList(<< a, b >>)
Row3(a, b, c) == PyList(<< a, b, c >>)

\* rows [[10, 10], [10, 40]]
ExampleRows ==
    PyList(<< Row2(PyInt(10), PyInt(10)), Row2(PyInt(10), PyInt(40)) >>)

Matrices ==
    { PyList(<< Row2(a, b) >>) : a \in CellValues, b \in CellValues }
    \cup { PyList(<< PyList(<< a >>), PyList(<< b >>) >>) : a \in CellValues, b \in CellValues }
    \cup { PyList(<< Row3(a, b, c) >>) : a \in CellValues, b \in CellValues, c \in CellValues }
    \cup { ExampleRows }

\* the values _format_for_display is applied to
FormatValues ==
    { PyInt(5), PyInt(100), PyInt(0), PyInt(-7), PyInt(10),
      PyFloat(3140), PyFloat(5000), PyFloat(100000), PyFloat(500), PyFloat(2500),
      PyFloat(125), PyFloat(-1), PyFloat(1999), PyFloat(9999), PyFloat(10500),
      PyFloat(-20000), PyBool(TRUE), PyBool(FALSE), PyStr("7"), PyStr("2.50"),
      PyStr("a"), PyStr(""), PyNone, Row2(PyInt(1), PyInt(2)) }

\* the calls: [program, precision, table_data, max_dev]
TableCalls ==
    { [program |-> "main.py", precision |-> CfgDefault.precision, table_data |-> m, max_dev |-> md] :
        m \in Matrices, md \in Thresholds \cup { NoneDev } }
    \cup
    { [program |-> "main_key.py", precision |-> CfgDefault.precision, table_data |-> m, max_dev |-> NoneDev] :
        m \in Matrices }
    \cup
    { [program |-> "main.py", precision |-> p, table_data |-> PyList(<< PyList(<< v >>) >>), max_dev |-> NoneDev] :
        p \in Precisions, v \in FormatValues }

InitTable ==
    \E call \in TableCalls :
        /\ program = call.program
        /\ args = [table_data |-> call.table_data, max_dev |-> call.max_dev, feed |-> <<>>]
        /\ AppInit([CfgDefault EXCEPT !.precision = call.precision], {})

\* main.py: TableViewer.add_table(table_data, max_dev)
AddTable ==
    /\ program = "main.py"
    /\ args.table_data # PyNone
    /\ content_layout = <<>>
    /\ content_layout' = Append(content_layout, add_table(args.table_data, args.max_dev, tv.precision))
    /\ tv_ops' = tv_ops + 1
    /\ UNCHANGED << env_vars, worker_vars, reader_vars, tv, last_rendered, non_table_layout,
                    delivered, nt_ops, send_vars, stop_vars, queue >>

\* main_key.py: TableViewer.add_table(table_data)
AddTable_key ==
    /\ program = "main_key.py"
    /\ args.table_data # PyNone
    /\ content_layout = <<>>
    /\ content_layout' = Append(content_layout, add_table_key(args.table_data))
    /\ tv_ops' = tv_ops + 1
    /\ UNCHANGED << env_vars, worker_vars, reader_vars, tv, last_rendered, non_table_layout,
                    delivered, nt_ops, send_vars, stop_vars, queue >>

NextTable == AddTable \/ AddTable_key

SpecTable == InitTable /\ [][NextTable]_vars


(***************************************************************************)
(* The render pipeline on nested records: the worker emits the records of  *)
(* a feed, one after the other, and update_view renders each.  Every       *)
(* record is an object, as emit passes nothing else.                       *)
(***************************************************************************)
\* [[1, 2]] and [[1], [2]]
Matrix12 == PyList(<< Row2(PyInt(1), PyInt(2)) >>)
Column12 == PyList(<< PyList(<< PyInt(1) >>), PyList(<< PyInt(2) >>) >>)
\* [[1], [1, 2]]: rows of different lengths
Ragged == PyList(<< PyList(<< PyInt(1) >>), Row2(PyInt(1), PyInt(2)) >>)
\* [] and [[]]
EmptyList == PyList(<<>>)
EmptyRow == PyList(<< PyList(<<>>) >>)
\* [1, 2]
Flat12 == Row2(PyInt(1), PyInt(2))
\* [[[1], [2]]]: one row whose cells are arrays
Cube == PyList(<< Row2(PyList(<< PyInt(1) >>), PyList(<< PyInt(2) >>)) >>)
\* [[{"M": [[1, 2]]}]]: one row whose cell is an object
CellObject == PyList(<< PyList(<< PyDict(<< "M" >>, << Matrix12 >>) >>) >>)
\* [[1], 5]
Mixed == PyList(<< PyList(<< PyInt(1) >>), PyInt(5) >>)

Leaves ==
    { PyInt(5), PyStr("s"), PyNone, Matrix12, Column12, Ragged, EmptyList, EmptyRow,
      Flat12, Cube, CellObject, Mixed }

\* a leaf, or a leaf one or two levels down in objects and arrays
Nested ==
    Leaves
    \cup { PyDict(<< "M" >>, << l >>) : l \in Leaves }
    \cup { PyList(<< l >>) : l \in Leaves }
    \cup { PyList(<< PyDict(<< "M" >>, << l >>), PyInt(5) >>) : l \in Leaves }
    \cup { PyDict(<< "N", "x" >>, << PyDict(<< "M" >>, << l >>), PyInt(5) >>) : l \in { Matrix12, Cube, Flat12 } }

Records ==
    { PyDict(<< "A", "B" >>, << v, w >>) :
        v \in Nested, w \in { PyInt(5), Column12, PyDict(<< "M" >>, << Matrix12 >>) } }

\* the records that follow the first: under "A" a matrix, or an array that
\* is none
NextRecords ==
    { PyDict(<< "A", "B" >>, << Matrix12, PyInt(5) >>),
      PyDict(<< "A", "B" >>, << Flat12, PyInt(5) >>) }

Feeds == { << r >> : r \in Records } \cup { << r, n >> : r \in Records, n \in NextRecords }

InitTraverse ==
    \E f \in Feeds :
        /\ program = "main.py"
        /\ args = [table_data |-> PyNone, max_dev |-> NoneDev, feed |-> f]
        /\ AppInit(CfgDefault, {})

\* the read loop receives the line of the next record of the feed, decodes
\* and emits it
Feed ==
    /\ Len(emitted) < Len(args.feed)
    /\ queue' = Append(queue, args.feed[Len(emitted) + 1])
    /\ emitted' = Append(emitted, [idx |-> 0, val |-> args.feed[Len(emitted) + 1]])
    /\ UNCHANGED << env_vars, worker_vars, pc, line, buffer, json_data, rx, n_err, view_vars,
                    send_vars, stop_vars >>

NextTraverse == Feed \/ UpdateView

SpecTraverse == InitTraverse /\ [][NextTraverse]_vars


(***************************************************************************)
(* The properties.                                                         *)
(***************************************************************************)
Last(q) == q[Len(q)]

WellFormed(text) == json_loads(text).ok

\* the emissions, and the deliveries, of the line at place i of rx: the
\* queue is first-in first-out, so the j-th delivery is the j-th emission
EmissionsOf(i) == { j \in 1..Len(emitted) : emitted[j].idx = i }
DeliveriesOf(i) == { j \in 1..Len(delivered) : emitted[j].idx = i }

\* the read loop stands between two iterations and the UI thread has
\* handled every posted event
Quiescent == pc = "while" /\ queue = <<>>

\* C1: every line received while running whose text is valid JSON of any
\* kind is delivered to update_view exactly once: never more than once, and
\* once its iteration is over and the posted events are handled, never zero
\* times; what is delivered is the line's decoding.
C1_ValidLineDeliveredExactlyOnce ==
    /\ \A i \in 1..Len(rx) : Cardinality(DeliveriesOf(i)) <= 1
    /\ Quiescent =>
         \A i \in 1..Len(rx) :
            WellFormed(rx[i].text) =>
               /\ Cardinality(DeliveriesOf(i)) = 1
               /\ \A j \in DeliveriesOf(i) : delivered[j] = json_loads(rx[i].text).val

RECURSIVE DecodingsOfWellFormed(_, _)
\* the decodings of the well-formed lines among the first n received
DecodingsOfWellFormed(lines, n) ==
    IF n = 0 THEN <<>>
    ELSE IF WellFormed(lines[n].text)
         THEN Append(DecodingsOfWellFormed(lines, n - 1), json_loads(lines[n].text).val)
         ELSE DecodingsOfWellFormed(lines, n - 1)

\* C2: a malformed line emits nothing and leaves nothing behind: between
\* two iterations the records emitted are exactly the decodings of the
\* well-formed lines received, in order.
C2_EmittedAreTheWellFormedLines ==
    pc = "while" =>
        [j \in 1..Len(emitted) |-> emitted[j].val] = DecodingsOfWellFormed(rx, Len(rx))

\* The part of C2 the code keeps: no emission stems from a malformed line,
\* and every object line is emitted with its own decoding whatever came
\* before it.
C2_MalformedLinesEmitNothing ==
    /\ \A j \in 1..Len(emitted) :
          /\ WellFormed(rx[emitted[j].idx].text)
          /\ emitted[j].val = json_loads(rx[emitted[j].idx].text).val
    /\ pc = "while" =>
          \A i \in 1..Len(rx) :
             (WellFormed(rx[i].text) /\ json_loads(rx[i].text).val.t = "dict")
                => Cardinality(EmissionsOf(i)) = 1

\* C3: an update_view call with a record equal to the one displayed just
\* before removes no widget from and adds no widget to the table view or
\* the companion view.
C3_EqualRecordNoRebuild ==
    [][ ( /\ delivered # <<>>
          /\ delivered' # delivered
          /\ Last(delivered') = Last(delivered) )
        => ( /\ tv_ops' = tv_ops
             /\ nt_ops' = nt_ops
             /\ content_layout' = content_layout
             /\ non_table_layout' = non_table_layout ) ]_vars

\* The part of C3 the code keeps: the table view is left alone.
C3_EqualRecordKeepsTableView ==
    [][ ( /\ delivered # <<>>
          /\ delivered' # delivered
          /\ Last(delivered') = Last(delivered) )
        => ( tv_ops' = tv_ops /\ content_layout' = content_layout ) ]_vars

\* C4: after any sequence of update_view calls last_rendered is the record
\* received last and the table view holds the tables of that record: a
\* record that differs from last_rendered in a type or a value is always
\* rendered.
C4_ChangedRecordRerenders ==
    delivered # <<>> =>
        /\ last_rendered = Last(delivered)
        /\ content_layout = render_data(Last(delivered), tv)

RECURSIVE ExpectedWrites(_, _)
\* cmd and a line terminator for each of the first n sends made with the
\* handle open
ExpectedWrites(log, n) ==
    IF n = 0 THEN <<>>
    ELSE IF log[n].open
         THEN Append(ExpectedWrites(log, n - 1), log[n].cmd \o "\n")
         ELSE ExpectedWrites(log, n - 1)

\* C5: send_command writes exactly cmd and one line terminator when the
\* handle is open, and otherwise (never opened, open failed, closed) writes
\* nothing and raises nothing.
C5_SendWritesIffOpen ==
    /\ written = ExpectedWrites(sends, Len(sends))
    /\ ~raised

\* a send on the open handle that wrote its line
C5_Witness ==
    /\ Len(sends) = 1
    /\ sends[1].open
    /\ written = << sends[1].cmd \o "\n" >>

\* C6: the handle is closed at most once, once a stop() has returned no
\* handle is open, and no send_command issued after a stop() finds an open
\* handle.
C6_NoOpenHandleAfterStop ==
    /\ closes <= 1
    /\ stop_returns > 0 => ~is_open
    /\ \A i \in 1..Len(sends) : sends[i].stopped => ~sends[i].open

\* C7: once stop() is called, wherever start() stands, start() returns.
C7_StopLeadsToReturn == (stop_calls > 0) ~> (pc = "done")

\* stop() was called while readline was in flight, and start() has returned
C7_Witness == stop_at = "readline" /\ pc = "done"

\* C8: while the worker is not stopped an error never ends the loop (start
\* returns only when the port could not be opened), and a well-formed line
\* received after an error is still emitted.
C8_LineAfterErrorIsEmitted ==
    /\ (pc = "done" /\ _running) => serial_port = "None"
    /\ pc = "while" =>
          \A i \in 1..Len(rx) :
             (rx[i].errs > 0 /\ WellFormed(rx[i].text)) => EmissionsOf(i) # {}

\* The part of C8 the code keeps: the loop survives every error, and an
\* object line received after an error is emitted.
C8_LoopSurvivesErrors ==
    /\ (pc = "done" /\ _running) => serial_port = "None"
    /\ pc = "while" =>
          \A i \in 1..Len(rx) :
             (rx[i].errs > 0 /\ WellFormed(rx[i].text) /\ json_loads(rx[i].text).val.t = "dict")
                => EmissionsOf(i) # {}

\* C9: whenever the read loop stands at its emit, the emit can complete,
\* however many earlier records still wait for update_view.
C9_EmitNeverWaits == pc = "emit" => ENABLED Emit

\* two records were emitted and the loop went on to its next read while
\* update_view had handled neither
C9_Witness == Len(queue) = 2 /\ delivered = <<>> /\ pc = "readline"

\* the per-table rules a configuration states: the named entries of
\* heatmaps, or without heatmaps the legacy table names
Named(c, K) ==
    IF Len(c.heatmaps) > 0
    THEN \E i \in 1..Len(c.heatmaps) : c.heatmaps[i].has_name /\ c.heatmaps[i].name = K
    ELSE \E i \in 1..Len(c.legacy_tables) : c.legacy_tables[i] = K

AnyRule(c) ==
    IF Len(c.heatmaps) > 0
    THEN \E i \in 1..Len(c.heatmaps) : c.heatmaps[i].has_name
    ELSE Len(c.legacy_tables) > 0

\* the threshold of the rule keyed by K (the last entry of that name)
RuleDev(c, K) ==
    IF Len(c.heatmaps) > 0
    THEN LET i == CHOOSE i \in 1..Len(c.heatmaps) :
                     /\ c.heatmaps[i].has_name /\ c.heatmaps[i].name = K
                     /\ \A j \in (i + 1)..Len(c.heatmaps) :
                           ~(c.heatmaps[j].has_name /\ c.heatmaps[j].name = K)
         IN  IF c.heatmaps[i].has_max_deviation THEN c.heatmaps[i].max_deviation
             ELSE c.legacy_max_dev
    ELSE c.legacy_max_dev

Backgrounds(table) ==
    { table.cells[i][j].bg : i \in 1..Len(table.cells), j \in 1..Len(table.cells[1]) }

\* the table widget at place k of the table view stands under the label K
TableUnder(k, K) ==
    /\ k \in 2..Len(content_layout)
    /\ content_layout[k].w = "table"
    /\ content_layout[k - 1].w = "label"
    /\ content_layout[k - 1].text = K \o ":"

\* C10: a matrix under label K is rendered (a) with the threshold of the
\* rule keyed by K if there is one, (b) with the default threshold if no
\* per-table rule is configured at all, (c) without any background if rules
\* exist and K is not among them.  Rules {A: 0.1} leave B uncoloured and
\* colour A = [[1, 2]] (255, 190, 190); no rules and default 0.2 colour
\* B = [[1, 3]] (255, 205, 205).
C10_RulePrecedence ==
    \A k \in 1..Len(content_layout) : \A K \in {"A", "B"} :
        TableUnder(k, K) =>
            LET table == content_layout[k]
            IN  /\ Named(cfg, K) => table.max_dev = RuleDev(cfg, K)
                /\ ~AnyRule(cfg) => table.max_dev = cfg.legacy_max_dev
                /\ (AnyRule(cfg) /\ ~Named(cfg, K)) =>
                      /\ table.max_dev = NoneDev
                      /\ Backgrounds(table) = { NoBackground }
                /\ (cfg = CfgHeatmapA /\ K = "B") => Backgrounds(table) = { NoBackground }
                /\ (cfg = CfgHeatmapA /\ K = "A") => Backgrounds(table) = { <<255, 190, 190>> }
                /\ (cfg = CfgDefault /\ K = "B") => Backgrounds(table) = { <<255, 205, 205>> }

\* rules {A: 0.1} are configured and the matrix B is on display, uncoloured
C10_Witness ==
    /\ cfg = CfgHeatmapA
    /\ \E k \in 1..Len(content_layout) :
          TableUnder(k, "B") /\ Backgrounds(content_layout[k]) = { NoBackground }

(***************************************************************************)
(* The properties of add_table, on the table it has put on display.        *)
(***************************************************************************)
\* add_table was called on its own and has added its table
TableShown == args.table_data # PyNone /\ content_layout # <<>>

TheTable == content_layout[1]

\* the places of the matrix, and those whose cell parses as a number
Places(m) == { <<i, j>> : i \in 1..Len(m.kids), j \in 1..Len(m.kids[1].kids) }
CellOf(m, x) == m.kids[x[1]].kids[x[2]]
NumericPlaces(m) == { x \in Places(m) : float(CellOf(m, x)).ok }

RECURSIVE SumOver(_, _)
\* the sum, in thousandths, of the cells of m at the places P
SumOver(m, P) ==
    IF P = {} THEN 0
    ELSE LET x == CHOOSE y \in P : TRUE
         IN  float(CellOf(m, x)).num + SumOver(m, P \ {x})

\* the mean over the numeric cells is 0, or there is no numeric cell
ZeroMean(m) == SumOver(m, NumericPlaces(m)) = 0

ShownCell(x) == TheTable.cells[x[1]][x[2]]

\* C11: for a matrix whose mean over its numeric cells is 0 (or that has
\* no numeric cell) add_table sets a background on no cell, whatever the
\* threshold, in main.py and in main_key.py.
C11_ZeroMeanNoColour ==
    (TableShown /\ ZeroMean(args.table_data)) =>
        \A x \in Places(args.table_data) : ShownCell(x).bg = NoBackground

\* The part of C11 the code keeps: main.py colours no cell of such a matrix.
C11_ZeroMeanNoColourMain ==
    (TableShown /\ program = "main.py" /\ ZeroMean(args.table_data)) =>
        \A x \in Places(args.table_data) : ShownCell(x).bg = NoBackground

\* C12: for a matrix with avg # 0, of either sign, the diff add_table
\* computes for a numeric cell is never negative, in main.py and in
\* main_key.py.
C12_DiffNonNegative ==
    (TableShown /\ ~ZeroMean(args.table_data)) =>
        \A x \in NumericPlaces(args.table_data) :
            ShownCell(x).diff # NoDiff => ShownCell(x).diff[1] >= 0

\* The part of C12 the code keeps: main.py's diff is never negative.
C12_DiffNonNegativeMain ==
    (TableShown /\ program = "main.py" /\ ~ZeroMean(args.table_data)) =>
        \A x \in NumericPlaces(args.table_data) :
            ShownCell(x).diff # NoDiff => ShownCell(x).diff[1] >= 0

\* the cell at x is numeric and equal to the mean of the numeric cells
AtMean(m, x) ==
    /\ x \in NumericPlaces(m)
    /\ float(CellOf(m, x)).num * Cardinality(NumericPlaces(m)) = SumOver(m, NumericPlaces(m))

\* a rule applies: main.py's add_table was given a threshold
RuleApplies == program = "main.py" /\ args.max_dev # NoneDev

\* C13: in main.py, with a rule of any threshold >= 0 and avg # 0, a cell
\* with diff = 0 gets the green gradient at t = 0, (234, 251, 234).
C13_AtMeanLightestGreen ==
    (TableShown /\ RuleApplies /\ args.max_dev >= 0 /\ ~ZeroMean(args.table_data)) =>
        \A x \in Places(args.table_data) :
            AtMean(args.table_data, x) => ShownCell(x).bg = << 234, 251, 234 >>

\* The part of C13 the code keeps: it holds for every threshold above 0.
C13_AtMeanLightestGreenPositive ==
    (TableShown /\ RuleApplies /\ args.max_dev > 0 /\ ~ZeroMean(args.table_data)) =>
        \A x \in Places(args.table_data) :
            AtMean(args.table_data, x) => ShownCell(x).bg = << 234, 251, 234 >>

\* a colour of the in-band gradient: (234, 251, 234) to (184, 240, 184)
GreenShade(bg) ==
    /\ bg # NoBackground
    /\ bg[1] \in 184..234 /\ bg[2] \in 240..251 /\ bg[3] = bg[1]

\* what C14 says of the numeric cell at x, with threshold md (thousandths):
\* diff = P / Q is |value - avg| / |avg|
GradientAt(m, x, md) ==
    LET N == Cardinality(NumericPlaces(m))
        S == SumOver(m, NumericPlaces(m))
        P == Abs(float(CellOf(m, x)).num * N - S)
        Q == Abs(S)
        bg == ShownCell(x).bg
    IN  IF P * 1000 <= md * Q
        THEN /\ GreenShade(bg)
             /\ md > 0 => bg = _green_color(P * 1000, md * Q)
        ELSE /\ md > 0 => bg = _red_color(P * 1000 - md * Q, md * 5 * Q)
             /\ P * 1000 >= 6 * md * Q => bg = << 255, 140, 140 >>

\* C14: in main.py, with a rule and avg # 0, a numeric cell with
\* diff <= max_deviation gets the green gradient at t = diff / max_deviation,
\* t in [0, 1]; any other gets the red gradient at
\* t = clamp((diff - max_deviation) / (max_deviation * 5), 0, 1), which is
\* (255, 140, 140) once diff >= 6 * max_deviation.  Rows [[10, 10], [10, 40]]
\* with max_deviation 0.1 have mean 17.5 and the cell 40 at t = 1.
C14_GradientByDeviation ==
    (TableShown /\ RuleApplies /\ args.max_dev >= 0 /\ ~ZeroMean(args.table_data)) =>
        /\ \A x \in NumericPlaces(args.table_data) :
              GradientAt(args.table_data, x, args.max_dev)
        /\ (args.table_data = ExampleRows /\ args.max_dev = 100) =>
              /\ 2 * TheTable.avg[1] = 35000 * TheTable.avg[2]
              /\ ShownCell(<<2, 2>>).bg = << 255, 140, 140 >>

\* The part of C14 the code keeps: it holds for every threshold above 0.
C14_GradientByDeviationPositive ==
    (TableShown /\ RuleApplies /\ args.max_dev > 0 /\ ~ZeroMean(args.table_data)) =>
        /\ \A x \in NumericPlaces(args.table_data) :
              GradientAt(args.table_data, x, args.max_dev)
        /\ (args.table_data = ExampleRows /\ args.max_dev = 100) =>
              /\ 2 * TheTable.avg[1] = 35000 * TheTable.avg[2]
              /\ ShownCell(<<2, 2>>).bg = << 255, 140, 140 >>

RECURSIVE StripZeros(_, _)
\* the decimals F (precision digits) without their trailing zeros
StripZeros(F, precision) ==
    IF precision = 0 THEN ""
    ELSE IF F % 10 = 0 THEN StripZeros(F \div 10, precision - 1)
    ELSE Join(Digits(F, precision))

\* the number of m thousandths with exactly precision decimals, less the
\* trailing zeros of the decimals and a decimal point left dangling
Trimmed(m, precision) ==
    LET R == IF precision >= 3 THEN Abs(m) * Pow10(precision - 3)
             ELSE RoundHalfEven(Abs(m), Pow10(3 - precision))
        decimals == StripZeros(R % Pow10(precision), precision)
    IN  (IF m < 0 THEN "-" ELSE "")
        \o ToString(R \div Pow10(precision))
        \o (IF decimals = "" THEN "" ELSE "." \o decimals)

\* the one cell of the matrix [[v]]
OneCell(v) == args.table_data = PyList(<< PyList(<< v >>) >>)

\* C15: _format_for_display gives a value that parses as a number with
\* exactly precision decimals, less the trailing zeros after the decimal
\* point and a dangling decimal point, the integer part untouched; any
\* other value as its str().  3.14000 at precision 3 is "3.14", 5 at
\* precision 0 is "5", 5.0 at precision 3 is "5", 100 is "100" at every
\* precision.
C15_FormatTrimsDecimalsOnly ==
    (TableShown /\ program = "main.py") =>
        /\ \A x \in Places(args.table_data) :
              LET v == CellOf(args.table_data, x)
              IN  ShownCell(x).text =
                     IF float(v).ok THEN Trimmed(float(v).num, tv.precision) ELSE str(v)
        /\ (OneCell(PyFloat(3140)) /\ tv.precision = 3) => ShownCell(<<1, 1>>).text = "3.14"
        /\ (OneCell(PyInt(5)) /\ tv.precision = 0) => ShownCell(<<1, 1>>).text = "5"
        /\ (OneCell(PyFloat(5000)) /\ tv.precision = 3) => ShownCell(<<1, 1>>).text = "5"
        /\ (OneCell(PyInt(100)) \/ OneCell(PyFloat(100000))) => ShownCell(<<1, 1>>).text = "100"

\* 100 was formatted at precision 0, where the text has no decimal point
C15_Witness ==
    /\ TableShown /\ program = "main.py"
    /\ OneCell(PyInt(100)) /\ tv.precision = 0
    /\ ShownCell(<<1, 1>>).text = "100"

\* the places of m row by row, and among them the numeric ones
FlatPlaces(m) ==
    LET cols == Len(m.kids[1].kids)
    IN  [k \in 1..(Len(m.kids) * cols) |-> << ((k - 1) \div cols) + 1, ((k - 1) % cols) + 1 >>]

FlatNumericPlaces(m) ==
    LET Parses(x) == float(CellOf(m, x)).ok
    IN  SelectSeq(FlatPlaces(m), Parses)

\* the one-row matrix of the numeric cells of m
NumericOnly(m) ==
    PyList(<< PyList([k \in 1..Len(FlatNumericPlaces(m)) |-> CellOf(m, FlatNumericPlaces(m)[k])]) >>)

\* C19: in main.py's add_table a cell that fails to parse as a number is
\* left out of the mean (avg is the mean of the numeric cells, however many
\* other cells there are) and gets no background, while the numeric cells
\* are coloured as they are without it; no error is raised.
C19_NonNumericCellsLeftOut ==
    (TableShown /\ program = "main.py") =>
        LET m == args.table_data
            np == FlatNumericPlaces(m)
        IN  /\ TheTable.avg = << SumOver(m, NumericPlaces(m)), Cardinality(NumericPlaces(m)) >>
            /\ \A x \in Places(m) \ NumericPlaces(m) : ShownCell(x).bg = NoBackground
            /\ np # <<>> =>
                  \A k \in 1..Len(np) :
                     ShownCell(np[k]).bg =
                        add_table(NumericOnly(m), args.max_dev, tv.precision).cells[1][k].bg
            /\ (args.max_dev > 0 /\ ~ZeroMean(m)) =>
                  \A x \in NumericPlaces(m) : ShownCell(x).bg # NoBackground

\* the row ["a", 1, 3] under the threshold 0.2: "a" has no background, and
\* 1 and 3, half the mean 2 away from it, have the red of t = 0.3
C19_Witness ==
    /\ TableShown /\ program = "main.py" /\ args.max_dev = 200
    /\ args.table_data = PyList(<< Row3(PyStr("a"), PyInt(1), PyInt(3)) >>)
    /\ ShownCell(<<1, 1>>).bg = NoBackground
    /\ ShownCell(<<1, 2>>).bg = << 255, 205, 205 >>
    /\ ShownCell(<<1, 3>>).bg = << 255, 205, 205 >>

(***************************************************************************)
(* The properties of the traversals.  A path is the sequence of positions  *)
(* that leads from the record to one of its values.                        *)
(***************************************************************************)
RECURSIVE TablePaths(_, _), CompanionPaths(_, _)
\* the paths of the values render_data hands to add_table, below the value
\* d at path
TablePaths(d, path) ==
    IF d.t = "dict" THEN
        UNION { IF is_2d_array(d.kids[i]) THEN { Append(path, i) }
                ELSE TablePaths(d.kids[i], Append(path, i)) : i \in 1..Len(d.kids) }
    ELSE IF d.t = "list" THEN
        UNION { TablePaths(d.kids[i], Append(path, i)) : i \in 1..Len(d.kids) }
    ELSE {}

\* the paths of the values render_non_table's recurse shows as str(value)
CompanionPaths(d, path) ==
    IF d.t = "dict" THEN
        { Append(path, i) : i \in { k \in 1..Len(d.kids) : ~is_2d_array(d.kids[k]) } }
    ELSE IF d.t = "list" THEN
        UNION { CompanionPaths(d.kids[i], Append(path, i)) : i \in 1..Len(d.kids) }
    ELSE { path }

RECURSIVE ValueAt(_, _)
ValueAt(d, path) == IF path = <<>> THEN d ELSE ValueAt(d.kids[Head(path)], Tail(path))

\* the value at path c is, or contains, the value at path t
Within(t, c) == Len(c) <= Len(t) /\ SubSeq(t, 1, Len(c)) = c

\* the record both views show
Rendered == delivered # <<>> /\ last_rendered = Last(delivered)

IsTableWidget(widget) == widget.w = "table"
IsValueLabel(widget) == widget.w = "label" /\ ~widget.bold

\* the two views show what the paths say: as many tables as table paths,
\* and the texts of the values at the companion paths
PathsMatchViews ==
    Rendered =>
        /\ Len(SelectSeq(content_layout, IsTableWidget))
              = Cardinality(TablePaths(last_rendered, <<>>))
        /\ { non_table_layout[k].text : k \in { j \in 1..Len(non_table_layout) : IsValueLabel(non_table_layout[j]) } }
              = { str(ValueAt(last_rendered, c)) : c \in CompanionPaths(last_rendered, <<>>) }

\* C16: no matrix is shown twice: a value render_data shows as a table, at
\* any depth of objects and arrays, is not, and is not inside, a value the
\* companion view of the same record shows.
C16_NoMatrixShownTwice ==
    Rendered =>
        \A t \in TablePaths(last_rendered, <<>>) :
            \A c \in CompanionPaths(last_rendered, <<>>) : ~Within(t, c)

\* The part of C16 the code keeps: a matrix directly under a key of the
\* record is not in the companion view.
C16_TopLevelMatrixNotShownTwice ==
    Rendered =>
        \A t \in TablePaths(last_rendered, <<>>) :
            Len(t) = 1 => \A c \in CompanionPaths(last_rendered, <<>>) : ~Within(t, c)

Scalar(v) == v.t \notin { "list", "dict" }

\* a Matrix: a non-empty sequence of sequences of scalars, all of one length
Matrix(v) ==
    /\ v.t = "list"
    /\ v.kids # <<>>
    /\ \A r \in 1..Len(v.kids) :
          /\ v.kids[r].t = "list"
          /\ \A j \in 1..Len(v.kids[r].kids) : Scalar(v.kids[r].kids[j])
          /\ Len(v.kids[r].kids) = Len(v.kids[1].kids)

\* what decides that a value is shown as a table: being a Matrix, or being
\* classified as one by is_2d_array
ShownAsTable(v, byDefinition) == IF byDefinition THEN Matrix(v) ELSE is_2d_array(v)

RECURSIVE DepthFirst(_, _), DepthFirstFrom(_, _, _)
\* the labelled tables of a depth-first traversal of node
DepthFirst(node, byDefinition) ==
    IF node.t \in { "dict", "list" } THEN DepthFirstFrom(node, 1, byDefinition) ELSE <<>>

DepthFirstFrom(node, i, byDefinition) ==
    IF i > Len(node.kids) THEN <<>>
    ELSE (IF node.t = "dict" /\ ShownAsTable(node.kids[i], byDefinition)
          THEN << Label(node.keys[i] \o ":", TRUE, 0),
                  add_table(node.kids[i],
                            ResolveMaxDev(node.keys[i], tv.heatmap_rules, tv.default_max_dev),
                            tv.precision) >>
          ELSE DepthFirst(node.kids[i], byDefinition))
         \o DepthFirstFrom(node, i + 1, byDefinition)

\* C17: render_data emits, depth first, one labelled table (label K, then
\* the table) for each key K whose value is a Matrix, in key order, goes
\* into every other object or array value and into every element of an
\* array, emits nothing for a scalar and does not go into a value it has
\* emitted as a table.
C17_DepthFirstTables ==
    last_rendered # PyNone => content_layout = DepthFirst(last_rendered, TRUE)

\* The part of C17 the code keeps: the traversal, with the tables being the
\* values is_2d_array accepts.
C17_DepthFirstTablesAsClassified ==
    last_rendered # PyNone => content_layout = DepthFirst(last_rendered, FALSE)

\* the key at position i of the rendered record heads a table of the table
\* view; it heads a value of the companion view
HeadsTable(i) == \E k \in 1..Len(content_layout) : TableUnder(k, last_rendered.keys[i])
HeadsValue(i) ==
    \E k \in 1..Len(non_table_layout) :
        /\ non_table_layout[k].bold
        /\ non_table_layout[k].text = last_rendered.keys[i] \o ":"

\* C18: a value is classified as a Matrix (shown as a table, left out of
\* the companion view) exactly when it is a non-empty sequence of sequences
\* of scalars of one length: not when a row holds an array or an object,
\* not when it is empty or ragged; and by what it is at the render at hand.
C18_MatrixClassification ==
    Rendered =>
        \A i \in 1..Len(last_rendered.keys) :
            /\ HeadsTable(i) <=> Matrix(last_rendered.kids[i])
            /\ HeadsValue(i) <=> ~Matrix(last_rendered.kids[i])

\* The part of C18 the code keeps: the value is classified anew at every
\* render, and an empty or ragged sequence is no Matrix.
C18_ClassifiedAtEveryRender ==
    Rendered =>
        \A i \in 1..Len(last_rendered.keys) :
            /\ HeadsTable(i) <=> is_2d_array(last_rendered.kids[i])
            /\ HeadsValue(i) <=> ~is_2d_array(last_rendered.kids[i])
            /\ last_rendered.kids[i] \in { EmptyList, Ragged, Mixed, Flat12 } => ~HeadsTable(i)

=============================================================================
